---- MODULE Spec2Model ----
(***************************************************************************)
(* Reliable file transfer over UDP (lab2): the sender of sender.cpp        *)
(* (final draft, lines 1-653), the receiver of receiver.cpp and the        *)
(* datagram network between them.                                          *)
(*                                                                         *)
(* One action is one iteration of a poll loop of the sender (connect,      *)
(* wait_for_file_name_ack, the three phases of the send_file loop,         *)
(* disconnect) or one datagram handled by Receiver::run.  Time is the      *)
(* action Tick, which ages every running timer by TickMs.                  *)
(***************************************************************************)
EXTENDS Integers, Sequences, FiniteSets, TLC

\* ---------------------------------------------------------------- constants
MAX_DATA_SIZE == 1024
WINDOW_SIZE == 16
TIMEOUT_MS == 1000
MAX_RETRIES == 5
\* the initial sequence number of the sender
ISN == 0
\* the value of duplicate_acks at which handle_ack retransmits
DUP_ACK_TRIGGER == 2

\* ------------------------------------------------------------------- bounds
\* number of MAX_DATA_SIZE chunks of the source file, and bytes of the last one
FileChunks == 3
LastChunkBytes == 512
\* granularity of the clock: Tick advances time by TickMs
TickMs == 501
\* duplicate ACKs counted by the sender before further duplicates are cut off
MaxDupAcks == 4
\* datagrams the prompt channel may drop in one run
MaxDrops == 1
\* the number of datagrams of a third party in flight at a time
MaxForged == 1
\* the longest payload of the packets the codec is exercised on
MaxCodecData == 2
\* the largest DATA sequence number the peer of SpecPeer sends
MaxPeerSeq == 8
\* number of chunks of the file sent in SpecLong
LongFileChunks == 5
\* the number of damaged datagrams in flight at a time
MaxCorrupt == 1
\* DATA and ACK datagrams the channel of SpecDataLoss may drop in one run
MaxDataDrops == 2
\* number of chunks of the file sent in SpecWindow
WindowFileChunks == 40
\* the largest denominator of cwnd with which the server of SpecWindow still
\* acknowledges new data
MaxCwndDen == 16

\* ------------------------------------------------------------------ helpers
Min2(a, b) == IF a <= b THEN a ELSE b
\* the lower limit b is not applied
Max2_First(a, b) == a
Max2(a, b) == IF a >= b THEN a ELSE b
SetMin(S) == CHOOSE x \in S : \A y \in S : x <= y

RECURSIVE Gcd(_, _)
Gcd(a, b) == IF b = 0 THEN a ELSE Gcd(b, a % b)

\* cwnd is a double in the code; here an exact fraction <<num, den>> in lowest terms
Rat(n, d) == LET g == Gcd(n, d) IN <<n \div g, d \div g>>
RatInt(n) == <<n, 1>>
RatAdd(x, y) == Rat(x[1] * y[2] + y[1] * x[2], x[2] * y[2])
RatInv(x) == <<x[2], x[1]>>
RatGeq(x, n) == x[1] >= n * x[2]
RatLeq(n, x) == n * x[2] <= x[1]
\* static_cast<uint32_t>(x)
RatFloor(x) == x[1] \div x[2]
\* static_cast<uint32_t>(x / 2)
RatHalfFloor(x) == x[1] \div (2 * x[2])

\* the age of a timestamp after TickMs more milliseconds; every age above
\* TIMEOUT_MS behaves alike, so ages stop at the first one above it
AgeCap == TIMEOUT_MS + TickMs
Aged(t) == Min2(t + TickMs, AgeCap)

\* ---------------------------------------------------------------- endpoints
SenderAddr == "sender"
ReceiverAddr == "receiver"
NoAddr == "0.0.0.0:0"

\* ------------------------------------------------------------------ packets
\* Packet (header fields, payload, SACK blocks) with the datagram's source
\* and destination endpoints; ok is the outcome of verify_checksum()
MkPacket(t, s, a, w, d, len, sk, from, to) ==
  [type |-> t, seq_num |-> s, ack_num |-> a, window_size |-> w,
   data |-> d, data_length |-> len, sack_count |-> 0, sack_blocks |-> sk,
   src |-> from, dst |-> to, ok |-> TRUE]

\* Packet(): header and payload zeroed
Control(t, s, a, from, to) == MkPacket(t, s, a, 0, 0, 0, <<>>, from, to)

\* recvfrom() returned nothing
NoPacket == Control("NONE", 0, 0, NoAddr, NoAddr)

\* --------------------------------------------------------------- the source
\* the file named on the command line of the sender, as its number of chunks
VARIABLE file_chunks

\* file_size, total_packets and the bytes of chunk i (0-based), as send_file
\* computes them; a chunk's bytes are identified by its index
FileSize == (file_chunks - 1) * MAX_DATA_SIZE + LastChunkBytes
TotalPackets == (FileSize + MAX_DATA_SIZE - 1) \div MAX_DATA_SIZE
ChunkBytes(i) == 100 + i
\* the bytes of the file's base name, identified by a number
BaseName == 1
ChunkSize(i) == Min2(MAX_DATA_SIZE, FileSize - i * MAX_DATA_SIZE)

VARIABLES
  \* network: the datagrams in flight, the kind of channel, and the number
  \* of datagrams dropped so far
  net, channel, drops,
  \* sender
  s_pc, s_state, seq_num, base, next_seq_num, sent_packets, send_times,
  syn_send_time, name_send_time, fin_send_time,
  syn_retries, name_retries, fin_retries,
  cong_state, cwnd, ssthresh, duplicate_acks, last_acked,
  server_locked, server_addr,
  \* the datagrams the sender's last step passed to sendto(), in order
  s_out,
  \* the sequence numbers covered by SACK blocks the sender has processed
  sacked,
  \* receiver
  r_running, r_state, expected_seq, recv_buffer, received_seqs,
  client_locked, client_addr,
  \* output_file: is_open(), failbit/badbit, and the bytes written
  out_open, out_fail, sink,
  \* the datagrams the receiver's last handler passed to sendto()
  r_out,
  \* the packet codec on its own: the packet built, the buffer serialize()
  \* gave, what happened to the buffer on the way, the packet deserialize()
  \* gave, and what verify_checksum() says of it
  c_stage, c_pkt, c_buf, c_damage, c_got, c_verified

s_conn == <<s_state, seq_num, server_locked, server_addr>>
s_win == <<base, next_seq_num, sent_packets, send_times>>
s_cc == <<cong_state, cwnd, ssthresh, duplicate_acks, last_acked>>
s_timers == <<syn_send_time, name_send_time, fin_send_time>>
s_retries == <<syn_retries, name_retries, fin_retries>>
svars == <<s_pc, s_conn, s_win, s_cc, s_timers, s_retries, s_out, sacked>>
r_conn == <<r_running, r_state, client_locked, client_addr>>
r_buf == <<expected_seq, recv_buffer, received_seqs>>
r_file == <<out_open, out_fail, sink>>
rvars == <<r_conn, r_buf, r_file, r_out>>
chan == <<channel, drops, file_chunks>>
codec == <<c_stage, c_pkt, c_buf, c_damage, c_got, c_verified>>
vars == <<net, chan, svars, rvars, codec>>

\* the state after Sender::Sender and Receiver::Receiver
EndpointsInit ==
  /\ s_pc = "start"
  /\ s_state = "CLOSED"
  /\ seq_num = ISN
  /\ base = 0
  /\ next_seq_num = 0
  /\ sent_packets = <<>>
  /\ send_times = <<>>
  /\ syn_send_time = 0
  /\ name_send_time = 0
  /\ fin_send_time = 0
  /\ syn_retries = 0
  /\ name_retries = 0
  /\ fin_retries = 0
  /\ cong_state = "SLOW_START"
  /\ cwnd = RatInt(1)
  /\ ssthresh = WINDOW_SIZE
  /\ duplicate_acks = 0
  /\ last_acked = 0
  /\ server_locked = FALSE
  /\ server_addr = NoAddr
  /\ s_out = <<>>
  /\ sacked = {}
  /\ r_running = TRUE
  /\ r_state = "CLOSED"
  /\ expected_seq = 0
  /\ recv_buffer = <<>>
  /\ received_seqs = {}
  /\ client_locked = FALSE
  /\ client_addr = NoAddr
  /\ out_open = FALSE
  /\ out_fail = FALSE
  /\ sink = <<>>
  /\ r_out = <<>>

\* the codec is not exercised on its own
CodecIdle ==
  /\ c_stage = "idle"
  /\ c_pkt = <<>>
  /\ c_buf = <<>>
  /\ c_damage = "none"
  /\ c_got = <<>>
  /\ c_verified = FALSE

\* the unreliable channel: a datagram sent stays in flight for ever, so it
\* may be lost (never read), delayed, reordered and read more than once
Init ==
  /\ net = {}
  /\ channel = "unreliable"
  /\ drops = 0
  /\ file_chunks = FileChunks
  /\ EndpointsInit
  /\ CodecIdle

\* the prompt channel: a datagram is read once, before the clock advances,
\* unless it is one of the at most MaxDrops datagrams that are dropped
InitPrompt ==
  /\ net = {}
  /\ channel = "prompt"
  /\ drops = 0
  /\ file_chunks = FileChunks
  /\ EndpointsInit
  /\ CodecIdle

\* what is in flight once datagram m has been read
Rest(m) == IF channel = "prompt" THEN net \ {m} ELSE net

\* the set of the datagrams of a sequence
Range(s) == {s[i] : i \in DOMAIN s}

\* what a non-blocking recvfrom on the socket bound to addr may return: a
\* datagram addressed to it or "nothing to read"; on the prompt channel what
\* is in flight has arrived, so that there is something to read
Inbox(addr) ==
  LET arrived == {m \in net : m.dst = addr}
  IN IF channel = "prompt" /\ arrived # {} THEN arrived ELSE arrived \cup {NoPacket}

\* ================================================================== sender

\* Sender::receive_packet: true iff a datagram was read and it does not come
\* from another endpoint than the locked server
S_Received(m) ==
  /\ m.type # "NONE"
  /\ ~(server_locked /\ m.src # server_addr)

\* the retransmission loops give up one retransmission late
RetriesExhausted_Late(n) == n > MAX_RETRIES

\* the test at the top of the loops of connect(), wait_for_file_name_ack()
\* and disconnect(): the loop gives up, without reading the socket
RetriesExhausted(n) == n >= MAX_RETRIES

\* the SYN built by connect()
SynPacket == Control("SYN", seq_num, 0, SenderAddr, ReceiverAddr)

\* connect(), up to the loop: send SYN, state SYN_SENT
Connect_Start ==
  /\ s_pc = "start"
  /\ s_pc' = "connect"
  /\ s_state' = "SYN_SENT"
  /\ syn_retries' = 0
  /\ syn_send_time' = 0
  /\ s_out' = <<SynPacket>>
  /\ net' = net \cup {SynPacket}
  /\ UNCHANGED <<seq_num, server_locked, server_addr, s_win, s_cc,
                 name_send_time, fin_send_time, name_retries, fin_retries,
                 sacked, rvars, chan, codec>>

\* one iteration of the loop of connect(), reading datagram m (or nothing)
Connect_Loop(m) ==
  /\ s_pc = "connect"
  /\ IF RetriesExhausted(syn_retries)
     THEN /\ s_pc' = "connect_failed"
          /\ s_out' = <<>>
          /\ UNCHANGED <<net, s_conn, s_win, s_cc, s_timers, s_retries>>
     ELSE LET expired == syn_send_time > TIMEOUT_MS
              resent == IF expired THEN <<SynPacket>> ELSE <<>>
              got == S_Received(m)
              valid == got /\ m.type = "SYN_ACK" /\ m.ok
              ack == Control("ACK", seq_num + 1, m.seq_num + 1,
                             SenderAddr, ReceiverAddr)
              out == IF valid THEN Append(resent, ack) ELSE resent
          IN /\ syn_send_time' = IF expired \/ valid THEN 0 ELSE syn_send_time
             /\ syn_retries' = IF expired THEN syn_retries + 1 ELSE syn_retries
             /\ server_locked' = (server_locked \/ got)
             /\ server_addr' = IF got /\ ~server_locked THEN m.src ELSE server_addr
             /\ s_state' = IF valid THEN "ESTABLISHED" ELSE s_state
             /\ seq_num' = IF valid THEN seq_num + 1 ELSE seq_num
             /\ base' = IF valid THEN seq_num + 1 ELSE base
             /\ next_seq_num' = IF valid THEN seq_num + 1 ELSE next_seq_num
             /\ s_pc' = IF valid THEN "connected" ELSE "connect"
             /\ s_out' = out
             /\ net' = Rest(m) \cup Range(out)
             /\ UNCHANGED <<sent_packets, send_times, s_cc, name_send_time,
                            fin_send_time, name_retries, fin_retries>>
  /\ UNCHANGED <<sacked, rvars, chan, codec>>

\* main: the FILE_NAME packet carrying the base name of the file
NamePacket ==
  MkPacket("FILE_NAME", 0, 0, 0, BaseName, 4, <<>>, SenderAddr, ReceiverAddr)

\* main after connect(): send FILE_NAME, enter wait_for_file_name_ack
SendFileName ==
  /\ s_pc = "connected"
  /\ s_pc' = "name_wait"
  /\ name_send_time' = 0
  /\ name_retries' = 0
  \* syn_retries is not read after connect() has returned
  /\ syn_retries' = 0
  /\ s_out' = <<NamePacket>>
  /\ net' = net \cup {NamePacket}
  /\ UNCHANGED <<s_conn, s_win, s_cc, syn_send_time, fin_send_time,
                 fin_retries, sacked, rvars, chan, codec>>

\* any datagram that verifies ends the wait
NameAckValid_AnyType(m) == S_Received(m) /\ m.ok

\* wait_for_file_name_ack: the datagram read is a FILE_NAME_ACK that verifies
NameAckValid(m) == S_Received(m) /\ m.type = "FILE_NAME_ACK" /\ m.ok

\* one iteration of the loop of wait_for_file_name_ack
WaitFileNameAck_Loop(m) ==
  /\ s_pc = "name_wait"
  /\ IF RetriesExhausted(name_retries)
     THEN /\ s_pc' = "name_failed"
          /\ s_out' = <<>>
          /\ UNCHANGED <<net, s_timers, s_retries>>
     ELSE LET expired == name_send_time > TIMEOUT_MS /\ name_retries < MAX_RETRIES
              resent == IF expired THEN <<NamePacket>> ELSE <<>>
              valid == NameAckValid(m)
          IN /\ name_send_time' = IF expired \/ valid THEN 0 ELSE name_send_time
             /\ name_retries' = IF valid THEN 0
                                ELSE IF expired THEN name_retries + 1
                                ELSE name_retries
             /\ s_pc' = IF valid THEN "fill" ELSE "name_wait"
             /\ s_out' = resent
             /\ net' = Rest(m) \cup Range(resent)
             /\ UNCHANGED <<syn_send_time, fin_send_time, syn_retries, fin_retries>>
  /\ UNCHANGED <<s_conn, s_win, s_cc, sacked, rvars, chan, codec>>

\* ------------------------------------------------------------- send_file
\* the window limit is cwnd alone
WindowLimit_CwndOnly(c) == RatFloor(c)

\* window_limit of the current loop iteration
WindowLimit(c) == Min2(RatFloor(c), WINDOW_SIZE)

\* the window fill sends one packet past the window limit
FillCond_PastLimit(n, b, limit) == n <= b + limit /\ n < seq_num + TotalPackets

\* the condition of the inner while loop that fills the window
FillCond(n, b, limit) == n < b + limit /\ n < seq_num + TotalPackets

\* the DATA packet with sequence number n
DataPacket(n) ==
  MkPacket("DATA", n, 0, 0, ChunkBytes(n - seq_num), ChunkSize(n - seq_num),
           <<>>, SenderAddr, ReceiverAddr)

\* the inner while loop: send, record in sent_packets and send_times, advance
RECURSIVE FillWindow(_, _)
FillWindow(w, limit) ==
  IF FillCond(w.next_seq_num, base, limit)
  THEN FillWindow([next_seq_num |-> w.next_seq_num + 1,
                   sent_packets |-> (w.next_seq_num :> DataPacket(w.next_seq_num))
                                     @@ w.sent_packets,
                   send_times |-> (w.next_seq_num :> 0) @@ w.send_times,
                   out |-> Append(w.out, DataPacket(w.next_seq_num))], limit)
  ELSE w

\* top of the outer loop: leave when everything is acknowledged, else fill
SendFile_Fill ==
  /\ s_pc = "fill"
  /\ IF base < seq_num + TotalPackets
     THEN LET w == FillWindow([next_seq_num |-> next_seq_num,
                               sent_packets |-> sent_packets,
                               send_times |-> send_times, out |-> <<>>],
                              WindowLimit(cwnd))
          IN /\ next_seq_num' = w.next_seq_num
             /\ sent_packets' = w.sent_packets
             /\ send_times' = w.send_times
             /\ s_out' = w.out
             /\ net' = net \cup Range(w.out)
             /\ s_pc' = "recv"
     ELSE /\ s_pc' = "sent"
          /\ s_out' = <<>>
          /\ UNCHANGED <<net, next_seq_num, sent_packets, send_times>>
  /\ UNCHANGED <<base, s_conn, s_cc, s_timers, s_retries, sacked, rvars, chan, codec>>

\* the sender's window and congestion state, as handle_ack and check_timeout
\* read and write it
SenderState ==
  [base |-> base, duplicate_acks |-> duplicate_acks, cong_state |-> cong_state,
   cwnd |-> cwnd, ssthresh |-> ssthresh, last_acked |-> last_acked,
   sent_packets |-> sent_packets, send_times |-> send_times,
   out |-> <<>>, sacked |-> sacked]

\* the erase leaves the map as it is
Erase_Nothing(f, gone) == f

\* f without the keys in gone
Erase(f, gone) == [k \in DOMAIN f \ gone |-> f[k]]

\* the removal loop stops one entry early
AckedKeys_OffByOne(sp, b) == {k \in DOMAIN sp : k < b - 1}

\* handle_ack, case 1: the loop removing the acknowledged packets
AckedKeys(sp, b) == {k \in DOMAIN sp : k < b}

\* every new ACK is treated as in slow start, and the state is kept
CwndOnNewAck_AlwaysAddsOne(st) ==
  [cwnd |-> RatAdd(st.cwnd, RatInt(1)), cong_state |-> st.cong_state]

\* handle_ack, case 1: the congestion window on a new ACK
CwndOnNewAck(st) ==
  CASE st.cong_state = "SLOW_START" ->
         [cwnd |-> RatAdd(st.cwnd, RatInt(1)),
          cong_state |-> IF RatGeq(RatAdd(st.cwnd, RatInt(1)), st.ssthresh)
                         THEN "CONGESTION_AVOIDANCE" ELSE "SLOW_START"]
    [] st.cong_state = "CONGESTION_AVOIDANCE" ->
         [cwnd |-> RatAdd(st.cwnd, RatInv(st.cwnd)),
          cong_state |-> "CONGESTION_AVOIDANCE"]
    [] st.cong_state = "FAST_RECOVERY" ->
         [cwnd |-> RatInt(st.ssthresh), cong_state |-> "CONGESTION_AVOIDANCE"]

\* last_acked is not recorded
AckCumulative_StaleLastAcked(st, a) ==
  LET cc == CwndOnNewAck(st)
      gone == AckedKeys(st.sent_packets, a)
  IN [st EXCEPT !.base = a, !.duplicate_acks = 0,
                !.cwnd = cc.cwnd, !.cong_state = cc.cong_state,
                !.sent_packets = Erase(@, gone), !.send_times = Erase(@, gone)]

\* handle_ack, case 1: ack_num > base
AckCumulative(st, a) ==
  LET cc == CwndOnNewAck(st)
      gone == AckedKeys(st.sent_packets, a)
  IN [st EXCEPT !.base = a, !.duplicate_acks = 0,
                !.cwnd = cc.cwnd, !.cong_state = cc.cong_state,
                !.sent_packets = Erase(@, gone), !.send_times = Erase(@, gone),
                !.last_acked = a]

\* a retransmission carries an empty payload
Resent_Empty(sp, k) == [sp[k] EXCEPT !.data = 0, !.data_length = 0]

\* send_packet(sent_packets[seq]): the packet a retransmission sends is the
\* copy stored when the sequence number was first sent
Resent(sp, k) == sp[k]

\* handle_ack, case 2: ack_num == last_acked
AckDuplicate(st, a) ==
  LET d == st.duplicate_acks + 1
      half == Max2(RatHalfFloor(st.cwnd), 2)
  IN IF d = DUP_ACK_TRIGGER
     THEN IF a \in DOMAIN st.sent_packets
          THEN [st EXCEPT !.duplicate_acks = d,
                          !.out = Append(@, Resent(st.sent_packets, a)),
                          !.ssthresh = half, !.cwnd = RatInt(half + 3),
                          !.cong_state = "FAST_RECOVERY"]
          ELSE [st EXCEPT !.duplicate_acks = d]
     ELSE IF d > DUP_ACK_TRIGGER /\ st.cong_state = "FAST_RECOVERY"
          THEN [st EXCEPT !.duplicate_acks = d, !.cwnd = RatAdd(@, RatInt(1))]
          ELSE [st EXCEPT !.duplicate_acks = d]

\* the right edge of a block is taken as covered too
RECURSIVE SackCovered_Inclusive(_)
SackCovered_Inclusive(blocks) ==
  IF blocks = <<>> THEN {}
  ELSE {q \in Head(blocks).left_edge .. Head(blocks).right_edge : TRUE}
       \cup SackCovered_Inclusive(Tail(blocks))

\* the sequence numbers the SACK blocks cover
RECURSIVE SackCovered(_)
SackCovered(blocks) ==
  IF blocks = <<>> THEN {}
  ELSE {q \in Head(blocks).left_edge .. Head(blocks).right_edge - 1 : TRUE}
       \cup SackCovered(Tail(blocks))

\* the SACK loop leaves every entry of the map
SackErase_Keeps(f, blocks) == f

\* handle_ack, the erase of the loop over the SACK blocks, on one of the maps
SackErase(f, blocks) == Erase(f, SackCovered(blocks))

\* handle_ack, the loop over the SACK blocks
AckSack(st, blocks) ==
  [st EXCEPT !.sent_packets = SackErase(@, blocks),
             !.send_times = SackErase(@, blocks),
             !.sacked = @ \cup SackCovered(blocks)]

\* Sender::handle_ack
HandleAck(st, p) ==
  AckSack(IF p.ack_num > st.base THEN AckCumulative(st, p.ack_num)
          ELSE IF p.ack_num = st.last_acked THEN AckDuplicate(st, p.ack_num)
          ELSE st,
          p.sack_blocks)

\* Sender::check_timeout over the entries keys of send_times, in key order
RECURSIVE TimeoutScan(_, _)
TimeoutScan(st, keys) ==
  IF keys = {} THEN st
  ELSE LET k == SetMin(keys)
       IN IF st.send_times[k] > TIMEOUT_MS /\ k \in DOMAIN st.sent_packets
          THEN TimeoutScan([st EXCEPT !.out = Append(@, Resent(st.sent_packets, k)),
                                      !.send_times[k] = 0,
                                      !.ssthresh = Max2(RatHalfFloor(st.cwnd), 2),
                                      !.cwnd = RatInt(1),
                                      !.cong_state = "SLOW_START",
                                      !.duplicate_acks = 0],
                           keys \ {k})
          ELSE TimeoutScan(st, keys \ {k})

CheckTimeout_Never(st) == st
CheckTimeout(st) == TimeoutScan(st, DOMAIN st.send_times)

\* the sender's state becomes st, and its datagrams st.out are sent
SenderBecomes(st, m) ==
  /\ base' = st.base
  /\ duplicate_acks' = st.duplicate_acks
  /\ cong_state' = st.cong_state
  /\ cwnd' = st.cwnd
  /\ ssthresh' = st.ssthresh
  /\ last_acked' = st.last_acked
  /\ sent_packets' = st.sent_packets
  /\ send_times' = st.send_times
  /\ sacked' = st.sacked
  /\ s_out' = st.out
  /\ net' = Rest(m) \cup Range(st.out)

\* m would be counted as one more duplicate ACK
CountsAsDuplicate(m) ==
  /\ m.type = "ACK"
  /\ ~(m.ack_num > base)
  /\ m.ack_num = last_acked

\* the checksum of the datagram is not verified
AckValid_NoChecksum(m) == S_Received(m) /\ m.type = "ACK"

\* send_file, step 4: a datagram was read, it is an ACK and it verifies
AckValid(m) == S_Received(m) /\ m.type = "ACK" /\ m.ok

\* step 4 of the outer loop: read one datagram; a valid ACK goes to handle_ack
SendFile_Recv(m) ==
  /\ s_pc = "recv"
  /\ CountsAsDuplicate(m) => duplicate_acks < MaxDupAcks
  /\ s_pc' = "timeout"
  /\ IF AckValid(m)
     THEN SenderBecomes(HandleAck(SenderState, m), m)
     ELSE SenderBecomes(SenderState, m)
  /\ UNCHANGED <<next_seq_num, s_conn, s_timers, s_retries, rvars, chan, codec>>

\* step 5 of the outer loop: check_timeout
SendFile_Timeout ==
  /\ s_pc = "timeout"
  /\ s_pc' = "fill"
  /\ SenderBecomes(CheckTimeout(SenderState), NoPacket)
  /\ UNCHANGED <<next_seq_num, s_conn, s_timers, s_retries, rvars, chan, codec>>

\* ------------------------------------------------------------ disconnect
\* the FIN built by disconnect()
FinPacket == Control("FIN", next_seq_num, 0, SenderAddr, ReceiverAddr)

\* main after send_file: disconnect(), up to the loop
Disconnect_Start ==
  /\ s_pc = "sent"
  /\ s_pc' = "fin_wait"
  /\ s_state' = "FIN_WAIT"
  /\ fin_retries' = 0
  /\ fin_send_time' = 0
  /\ s_out' = <<FinPacket>>
  /\ net' = net \cup {FinPacket}
  /\ UNCHANGED <<seq_num, server_locked, server_addr, s_win, s_cc,
                 syn_send_time, name_send_time, syn_retries, name_retries,
                 sacked, rvars, chan, codec>>

\* one iteration of the loop of disconnect()
Disconnect_Loop(m) ==
  /\ s_pc = "fin_wait"
  /\ IF RetriesExhausted(fin_retries)
     THEN /\ s_pc' = "done"
          /\ s_out' = <<>>
          /\ UNCHANGED <<net, s_state, s_timers, s_retries>>
     ELSE LET expired == fin_send_time > TIMEOUT_MS
              resent == IF expired THEN <<FinPacket>> ELSE <<>>
              valid == S_Received(m) /\ m.type = "FIN_ACK" /\ m.ok
          IN /\ fin_send_time' = IF expired \/ valid THEN 0 ELSE fin_send_time
             /\ fin_retries' = IF expired THEN fin_retries + 1 ELSE fin_retries
             /\ s_state' = IF valid THEN "CLOSED" ELSE s_state
             /\ s_pc' = IF valid THEN "done" ELSE "fin_wait"
             /\ s_out' = resent
             /\ net' = Rest(m) \cup Range(resent)
             /\ UNCHANGED <<syn_send_time, name_send_time, syn_retries, name_retries>>
  /\ UNCHANGED <<seq_num, server_locked, server_addr, s_win, s_cc, sacked, rvars, chan, codec>>

\* ================================================================ receiver

\* run(), step 1: recvfrom returns the datagram m
R_Read(m) ==
  /\ r_running
  /\ m \in net
  /\ m.dst = ReceiverAddr

\* the source of the datagram is not compared with the locked client
R_FromPeer_Any(m) == TRUE

\* Receiver::receive_packet: the datagram does not come from another
\* endpoint than the locked client
R_FromPeer(m) == ~(client_locked /\ m.src # client_addr)

\* Receiver::receive_packet and the checksum test of run(): datagram m is
\* read, comes from the locked client if one is locked, and verifies
R_Accepted(m) ==
  /\ R_Read(m)
  /\ R_FromPeer(m)
  /\ m.ok

\* run(), step 4: the loop ends when a handled packet leaves the state CLOSED
R_LoopContinues_Always(state) == TRUE
R_LoopContinues(state) == state # "CLOSED"

\* the receiver replies with the datagrams out
R_Sends(m, out) ==
  /\ r_out' = out
  /\ net' = Rest(m) \cup Range(out)

\* the SYN_ACK acknowledges the sequence number of the SYN itself
SynAck_EchoSeq(m) == Control("SYN_ACK", 0, m.seq_num, ReceiverAddr, m.src)

\* handle_syn: the SYN_ACK that answers the SYN m
SynAck(m) == Control("SYN_ACK", 0, m.seq_num + 1, ReceiverAddr, m.src)

\* Receiver::handle_syn
Handle_Syn(m) ==
  /\ R_Accepted(m)
  /\ m.type = "SYN"
  /\ client_locked' = TRUE
  /\ client_addr' = IF client_locked THEN client_addr ELSE m.src
  /\ R_Sends(m, <<SynAck(m)>>)
  /\ expected_seq' = m.seq_num + 1
  /\ r_state' = "SYN_RECEIVED"
  /\ r_running' = R_LoopContinues(r_state')
  /\ UNCHANGED <<recv_buffer, received_seqs, r_file, svars, chan, codec>>

\* handle_ack_handshake: the ACK completes the handshake
HandshakeAckOk_Any(m) == TRUE
HandshakeAckOk(m) == m.ack_num = 1

\* Receiver::handle_ack_handshake
Handle_Ack_Handshake(m) ==
  /\ R_Accepted(m)
  /\ m.type = "ACK"
  /\ r_state' = IF r_state = "SYN_RECEIVED" /\ HandshakeAckOk(m)
                THEN "ESTABLISHED" ELSE r_state
  /\ r_running' = R_LoopContinues(r_state')
  /\ R_Sends(m, <<>>)
  /\ UNCHANGED <<client_locked, client_addr, r_buf, r_file, svars, chan, codec>>

\* output_file as [open, fail, bytes]: std::ofstream::open fails (failbit)
\* on a stream that is already open, else opens an empty file and clears
\* the error state
FileOpen(f) ==
  IF f.open THEN [f EXCEPT !.fail = TRUE]
  ELSE [open |-> TRUE, fail |-> FALSE, bytes |-> <<>>]

\* std::ofstream::write: nothing is written once an error bit is set; writing
\* to a stream that is not open sets badbit
FileWrite(f, pkt) ==
  IF f.fail \/ pkt.data_length = 0 THEN f
  ELSE IF ~f.open THEN [f EXCEPT !.fail = TRUE]
  ELSE [f EXCEPT !.bytes = Append(@, [data |-> pkt.data,
                                      data_length |-> pkt.data_length])]

\* std::ofstream::close: fails (failbit) on a stream that is not open
FileClose(f) ==
  IF f.open THEN [f EXCEPT !.open = FALSE] ELSE [f EXCEPT !.fail = TRUE]

OutputFile == [open |-> out_open, fail |-> out_fail, bytes |-> sink]

OutputFileBecomes(f) ==
  /\ out_open' = f.open
  /\ out_fail' = f.fail
  /\ sink' = f.bytes

\* Receiver::handle_file_name
Handle_File_Name(m) ==
  /\ R_Accepted(m)
  /\ m.type = "FILE_NAME"
  /\ IF r_state # "ESTABLISHED"
     THEN /\ R_Sends(m, <<>>)
          /\ UNCHANGED r_file
     ELSE /\ OutputFileBecomes(FileOpen(OutputFile))
          /\ R_Sends(m, <<Control("FILE_NAME_ACK", 0, m.seq_num + 1,
                               ReceiverAddr, m.src)>>)
  /\ r_running' = R_LoopContinues(r_state)
  /\ UNCHANGED <<r_state, client_locked, client_addr, r_buf, svars, chan, codec>>

\* the packet is stored whether or not its sequence number is in received_seqs
StoreNew_Always(rb, p) ==
  [rb EXCEPT !.recv_buffer = (p.seq_num :> p) @@ @,
             !.received_seqs = @ \cup {p.seq_num}]

\* handle_data, steps 1-2: store a packet whose sequence number is new
StoreNew(rb, p) ==
  IF p.seq_num \notin rb.received_seqs
  THEN [rb EXCEPT !.recv_buffer = (p.seq_num :> p) @@ @,
                  !.received_seqs = @ \cup {p.seq_num}]
  ELSE rb

\* handle_data, step 3: write the in-order prefix of recv_buffer to the file
RECURSIVE Drain(_)
Drain(rb) ==
  IF rb.expected_seq \in DOMAIN rb.recv_buffer
  THEN Drain([rb EXCEPT !.file = FileWrite(@, rb.recv_buffer[rb.expected_seq]),
                        !.recv_buffer = Erase(@, {rb.expected_seq}),
                        !.expected_seq = @ + 1])
  ELSE rb

\* send_ack: the end of the run of consecutive members of S that starts at r - 1
RECURSIVE RunEnd_OnePast(_, _)
RunEnd_OnePast(S, r) == IF r \in S THEN RunEnd_OnePast(S, r + 1) ELSE r + 1
RECURSIVE RunEnd(_, _)
RunEnd(S, r) == IF r \in S THEN RunEnd(S, r + 1) ELSE r

\* send_ack: at most n SACK blocks, one per run of consecutive members of S
RECURSIVE SackRuns(_, _)
SackRuns(S, n) ==
  IF S = {} \/ n = 0 THEN <<>>
  ELSE LET left == SetMin(S)
           right == RunEnd(S, left + 1)
       IN <<[left_edge |-> left, right_edge |-> right]>>
          \o SackRuns({x \in S : x >= right}, n - 1)

\* the scan stops at four blocks
SackBlocks_Four(seqs, expected) == SackRuns({x \in seqs : x > expected}, 4)

\* send_ack: the blocks, scanned from received_seqs.upper_bound(expected_seq)
SackBlocks(seqs, expected) == SackRuns({x \in seqs : x > expected}, 3)

\* Receiver::send_ack
AckPacket(seqs, expected, to) ==
  [MkPacket("ACK", 0, expected, WINDOW_SIZE, 0, 0, SackBlocks(seqs, expected),
            ReceiverAddr, to)
     EXCEPT !.sack_count = Len(SackBlocks(seqs, expected))]

\* Receiver::handle_data
Handle_Data(m) ==
  /\ R_Accepted(m)
  /\ m.type = "DATA"
  /\ IF r_state # "ESTABLISHED"
     THEN /\ R_Sends(m, <<>>)
          /\ UNCHANGED <<r_buf, r_file>>
     ELSE LET rb == Drain(StoreNew([expected_seq |-> expected_seq,
                                    recv_buffer |-> recv_buffer,
                                    received_seqs |-> received_seqs,
                                    file |-> OutputFile], m))
          IN /\ expected_seq' = rb.expected_seq
             /\ recv_buffer' = rb.recv_buffer
             /\ received_seqs' = rb.received_seqs
             /\ OutputFileBecomes(rb.file)
             /\ R_Sends(m, <<AckPacket(rb.received_seqs, rb.expected_seq, m.src)>>)
  /\ r_running' = R_LoopContinues(r_state)
  /\ UNCHANGED <<r_state, client_locked, client_addr, svars, chan, codec>>

\* the FIN_ACK of handle_fin: ack_num = seq_num of the FIN + 1
FinAck_EchoSeq(m) == Control("FIN_ACK", 0, m.seq_num, ReceiverAddr, m.src)
FinAck(m) == Control("FIN_ACK", 0, m.seq_num + 1, ReceiverAddr, m.src)

\* Receiver::handle_fin
Handle_Fin(m) ==
  /\ R_Accepted(m)
  /\ m.type = "FIN"
  /\ R_Sends(m, <<FinAck(m)>>)
  /\ r_state' = "CLOSED"
  /\ OutputFileBecomes(FileClose(OutputFile))
  /\ r_running' = R_LoopContinues(r_state')
  /\ UNCHANGED <<client_locked, client_addr, r_buf, svars, chan, codec>>

\* ==================================================================== time
\* the datagrams in flight to an endpoint that still reads its socket
SenderEnded == s_pc \in {"connect_failed", "name_failed", "done"}
Pending ==
  {m \in net : IF m.dst = SenderAddr THEN ~SenderEnded
               ELSE m.dst = ReceiverAddr /\ r_running}

\* TickMs milliseconds pass: the running retransmission timers age; on the
\* prompt channel no datagram stays in flight that long
Tick ==
  /\ send_times' = [k \in DOMAIN send_times |-> Aged(send_times[k])]
  /\ syn_send_time' = IF s_pc = "connect" THEN Aged(syn_send_time) ELSE syn_send_time
  /\ name_send_time' = IF s_pc = "name_wait" THEN Aged(name_send_time) ELSE name_send_time
  /\ fin_send_time' = IF s_pc = "fin_wait" THEN Aged(fin_send_time) ELSE fin_send_time
  /\ channel = "prompt" => Pending = {}
  /\ UNCHANGED <<net, s_pc, s_conn, base, next_seq_num, sent_packets, s_cc,
                 s_retries, s_out, sacked, rvars, chan, codec>>

\* ============================================================ specification
SenderStep ==
  \/ Connect_Start
  \/ \E m \in Inbox(SenderAddr) : Connect_Loop(m)
  \/ SendFileName
  \/ \E m \in Inbox(SenderAddr) : WaitFileNameAck_Loop(m)
  \/ SendFile_Fill
  \/ \E m \in Inbox(SenderAddr) : SendFile_Recv(m)
  \/ SendFile_Timeout
  \/ Disconnect_Start
  \/ \E m \in Inbox(SenderAddr) : Disconnect_Loop(m)

ReceiverStep ==
  \/ \E m \in net : Handle_Syn(m)
  \/ \E m \in net : Handle_Ack_Handshake(m)
  \/ \E m \in net : Handle_File_Name(m)
  \/ \E m \in net : Handle_Data(m)
  \/ \E m \in net : Handle_Fin(m)

Next == SenderStep \/ ReceiverStep \/ Tick

\* datagrams stay in flight after delivery: the network may lose, delay,
\* reorder and duplicate them
Spec == Init /\ [][Next]_vars

\* Receiver::receive_packet returns false for a datagram of another endpoint
\* than the locked client, and run() drops a datagram that does not verify:
\* no handler runs
R_Discard(m) ==
  /\ R_Read(m)
  /\ ~(R_FromPeer(m) /\ m.ok)
  /\ R_Sends(m, <<>>)
  /\ UNCHANGED <<r_running, r_conn, r_buf, r_file, svars, chan, codec>>

\* the packet types handle_packet has a case for
HandledTypes == {"SYN", "ACK", "FILE_NAME", "DATA", "FIN"}

\* Receiver::handle_packet, default case: no handler runs, and run() goes on
\* to its test of the connection state
Handle_Other(m) ==
  /\ R_Accepted(m)
  /\ m.type \notin HandledTypes
  /\ R_Sends(m, <<>>)
  /\ r_running' = R_LoopContinues(r_state)
  /\ UNCHANGED <<r_state, client_locked, client_addr, r_buf, r_file, svars, chan, codec>>

\* ---------------------------------------------------------- a third party
\* an endpoint that is neither the sender nor the receiver
IntruderAddr == "intruder"

\* the datagrams the third party sends: control packets of every type to
\* either program, with a checksum that verifies or not
ForgedPackets ==
  {[Control(t, 0, 1, IntruderAddr, to) EXCEPT !.ok = v] :
     t \in {"SYN", "SYN_ACK", "ACK", "FIN"},
     to \in {SenderAddr, ReceiverAddr}, v \in BOOLEAN}

\* the third party sends datagram m; at most MaxForged of its datagrams
\* are in flight to the two programs at a time
Inject(m) ==
  /\ m \in ForgedPackets
  /\ Cardinality({f \in net : f.src = IntruderAddr}) < MaxForged
  /\ net' = net \cup {m}
  /\ UNCHANGED <<chan, codec, svars, rvars>>

NextIntruder ==
  \/ Next
  \/ \E m \in net : R_Discard(m)
  \/ \E m \in net : Handle_Other(m)
  \/ \E m \in ForgedPackets : Inject(m)

\* the prompt channel without loss, and a third party that sends datagrams
\* to both programs
SpecIntruder == InitPrompt /\ [][NextIntruder]_vars

\* the prompt channel loses a datagram in flight, at most MaxDrops times
Drop(m) ==
  /\ channel = "prompt"
  /\ drops < MaxDrops
  /\ m \in net
  /\ net' = net \ {m}
  /\ drops' = drops + 1
  /\ UNCHANGED <<channel, file_chunks, codec, svars, rvars>>

NextPrompt == Next \/ \E m \in net : Drop(m)

\* a channel that loses at most MaxDrops datagrams and delivers every other
\* one before a timer runs out; both programs and the clock keep running
SpecFair ==
  /\ InitPrompt
  /\ [][NextPrompt]_vars
  /\ WF_vars(SenderStep)
  /\ WF_vars(ReceiverStep)
  /\ WF_vars(Tick)

\* the channel loses a DATA datagram, or an ACK of the receiver
DropData(m) ==
  /\ channel = "prompt"
  /\ drops < MaxDataDrops
  /\ m \in net
  /\ \/ m.type = "DATA"
     \/ m.type = "ACK" /\ m.src = ReceiverAddr
  /\ net' = net \ {m}
  /\ drops' = drops + 1
  /\ UNCHANGED <<channel, file_chunks, codec, svars, rvars>>

NextDataLoss == Next \/ \E m \in net : DropData(m)

\* a channel that delivers every datagram of the handshake and of the file
\* name exchange once, loses at most MaxDataDrops DATA and ACK datagrams and
\* delivers every other one before a timer runs out; both programs and the
\* clock keep running
SpecDataLoss ==
  /\ InitPrompt
  /\ [][NextDataLoss]_vars
  /\ WF_vars(SenderStep)
  /\ WF_vars(ReceiverStep)
  /\ WF_vars(Tick)

\* ---------------------------------------------------------- a noisy channel
\* the network damages the datagram m in flight, so that verify_checksum()
\* fails on it; at most MaxCorrupt damaged datagrams are in flight at a time
Corrupt(m) ==
  /\ m \in net
  /\ m.ok
  /\ Cardinality({f \in net : ~f.ok}) < MaxCorrupt
  /\ net' = (net \ {m}) \cup {[m EXCEPT !.ok = FALSE]}
  /\ UNCHANGED <<chan, codec, svars, rvars>>

NextNoise ==
  \/ Next
  \/ \E m \in net : R_Discard(m)
  \/ \E m \in net : Corrupt(m)

\* the prompt channel without loss, on which datagrams are damaged
SpecNoise == InitPrompt /\ [][NextNoise]_vars

\* ------------------------------------------------------------ a longer file
\* the prompt channel, on which no datagram is lost and each is read once,
\* in any order, and a file of LongFileChunks chunks
InitLong ==
  /\ net = {}
  /\ channel = "prompt"
  /\ drops = 0
  /\ file_chunks = LongFileChunks
  /\ EndpointsInit
  /\ CodecIdle

SpecLong == InitLong /\ [][Next]_vars

\* ------------------------------------------------- the receiver and a peer
\* a client other than sender.exe: it sends the packets of the protocol to
\* the receiver in any order, with DATA sequence numbers up to MaxPeerSeq
PeerData(n) ==
  MkPacket("DATA", n, 0, 0, ChunkBytes(n - (ISN + 1)), MAX_DATA_SIZE, <<>>,
           SenderAddr, ReceiverAddr)

PeerPackets ==
  {SynPacket, Control("ACK", ISN + 1, 1, SenderAddr, ReceiverAddr), NamePacket,
   Control("ACK", ISN + 1, 2, SenderAddr, ReceiverAddr),
   Control("FIN", ISN + 1, 0, SenderAddr, ReceiverAddr)}
  \cup {PeerData(n) : n \in (ISN + 1) .. MaxPeerSeq}

\* the peer has read what the receiver sent and sends p, once the receiver
\* has read the peer's last datagram
Peer_Send(p) ==
  /\ p \in PeerPackets
  /\ r_running
  /\ \A m \in net : m.dst # ReceiverAddr
  /\ net' = {p}
  /\ UNCHANGED <<chan, codec, svars, rvars>>

NextPeer == ReceiverStep \/ \E p \in PeerPackets : Peer_Send(p)

\* the receiver alone, from its construction, with the peer
SpecPeer == InitPrompt /\ [][NextPeer]_vars

\* =========================================================== packet codec
\* A Packet as it lies in memory on the little-endian host the programs are
\* built for: header is the 20 bytes of PacketHeader (packed), data the bytes
\* of the data array that have been set (the constructor zeroes the rest),
\* sack_blocks the 8 bytes of each SACKBlock.
HEADER_SIZE == 20
SACK_BLOCK_SIZE == 8
TYPE_DATA == 3
TYPE_ACK == 4

\* a 16-bit and a 32-bit field in memory
LE16(x) == <<x % 256, x \div 256>>
LE32(x) ==
  <<x % 256, (x \div 256) % 256, (x \div 65536) % 256, x \div 16777216>>

\* PacketHeader with the fields given, flags = 0 and checksum = 0
HeaderBytes(type, seq, ack, window, len, count) ==
  <<type, 0, 0, 0>> \o LE32(seq) \o LE32(ack) \o LE16(window) \o LE16(len)
    \o LE32(count)

\* header.data_length and header.sack_count of the header bytes h; a
\* sack_count of 2^16 or more is reported as 2^16, more than any buffer holds
DataLengthOf(h) == h[15] + 256 * h[16]
SackCountOf(h) == IF h[19] > 0 \/ h[20] > 0 THEN 65536 ELSE h[17] + 256 * h[18]

\* Packet(): all of the header and of the data array is zero
EmptyPacket ==
  [header |-> [i \in 1 .. HEADER_SIZE |-> 0], data |-> <<>>, sack_blocks |-> <<>>]

\* data[0 .. n) of packet p
DataArea(p, n) == [i \in 1 .. n |-> IF i <= Len(p.data) THEN p.data[i] ELSE 0]

\* the sum of the 16-bit big-endian words of bytes, a last odd byte being
\* the high byte of its word (the words are summed by halves of the
\* sequence, which keeps the evaluation shallow for a full data array)
RECURSIVE WordSum(_)
WordSum(bytes) ==
  IF bytes = <<>> THEN 0
  ELSE IF Len(bytes) = 1 THEN bytes[1] * 256
  ELSE IF Len(bytes) = 2 THEN bytes[1] * 256 + bytes[2]
  ELSE LET half == 2 * (((Len(bytes) + 1) \div 2) \div 2)
       IN WordSum(SubSeq(bytes, 1, half))
            + WordSum(SubSeq(bytes, half + 1, Len(bytes)))

RECURSIVE BlocksSum(_)
BlocksSum(blocks) ==
  IF blocks = <<>> THEN 0 ELSE WordSum(Head(blocks)) + BlocksSum(Tail(blocks))

\* calculate_checksum, step 4: the end-around carry
RECURSIVE Fold(_)
Fold(sum) == IF sum \div 65536 > 0 THEN Fold((sum % 65536) + (sum \div 65536)) ELSE sum

\* Packet::calculate_checksum, for data_length <= MAX_DATA_SIZE: the bytes
\* of data[0 .. data_length) that were never set are zero and add nothing
calculate_checksum(p) ==
  65535 - Fold(WordSum(p.header)
               + WordSum(DataArea(p, Min2(DataLengthOf(p.header), Len(p.data))))
               + BlocksSum(p.sack_blocks))

\* Packet::verify_checksum
verify_checksum(p) == calculate_checksum(p) = 0

\* header.checksum = calculate_checksum(), in host byte order
ChecksumBytes_NoHtons(c) == <<c % 256, c \div 256>>

\* header.checksum = htons(calculate_checksum()): the two bytes in memory
ChecksumBytes(c) == <<c \div 256, c % 256>>

\* the packet p with its checksum stored, computed over a zero checksum
WithChecksum(p) ==
  LET c == ChecksumBytes(calculate_checksum(p))
  IN [p EXCEPT !.header[3] = c[1], !.header[4] = c[2]]

RECURSIVE Flatten(_)
Flatten(blocks) ==
  IF blocks = <<>> THEN <<>> ELSE Head(blocks) \o Flatten(Tail(blocks))

\* Packet::serialize
serialize(p) ==
  p.header \o DataArea(p, DataLengthOf(p.header)) \o Flatten(p.sack_blocks)

\* Packet::deserialize
deserialize(buffer) ==
  IF Len(buffer) < HEADER_SIZE THEN EmptyPacket
  ELSE LET h == SubSeq(buffer, 1, HEADER_SIZE)
           len == DataLengthOf(h)
           copied == len > 0 /\ HEADER_SIZE + len <= Len(buffer)
           offset == IF copied THEN HEADER_SIZE + len ELSE HEADER_SIZE
           n == Min2(SackCountOf(h), (Len(buffer) - offset) \div SACK_BLOCK_SIZE)
       IN [header |-> h,
           data |-> IF copied THEN SubSeq(buffer, HEADER_SIZE + 1, offset) ELSE <<>>,
           sack_blocks |->
             [i \in 1 .. n |-> SubSeq(buffer, offset + SACK_BLOCK_SIZE * (i - 1) + 1,
                                      offset + SACK_BLOCK_SIZE * i)]]

\* the byte x with bit b inverted
FlipBit(x, b) == IF (x \div 2^b) % 2 = 1 THEN x - 2^b ELSE x + 2^b

\* the payloads, of the bytes 0, 1 and 255, and the lists of SACK blocks of
\* the packets the codec is exercised on
CodecPayloads == UNION {[1 .. n -> {0, 1, 255}] : n \in 0 .. MaxCodecData}
CodecSacks == {<<>>, <<LE32(3) \o LE32(4)>>}

\* well-formed packets: sack_count is the number of SACK blocks, data_length
\* the number of payload bytes, and the checksum is stored as the programs
\* store it
CodecPackets ==
  {WithChecksum([header |-> HeaderBytes(t, q, 2, WINDOW_SIZE, Len(d), Len(k)),
                 data |-> d, sack_blocks |-> k]) :
     t \in {TYPE_DATA, TYPE_ACK}, q \in {0, 1}, d \in CodecPayloads, k \in CodecSacks}

InitCodec ==
  /\ net = {}
  /\ channel = "none"
  /\ drops = 0
  /\ file_chunks = FileChunks
  /\ EndpointsInit
  /\ c_stage = "built"
  /\ c_pkt \in CodecPackets
  /\ c_buf = <<>>
  /\ c_damage = "none"
  /\ c_got = EmptyPacket
  /\ c_verified = FALSE

\* send_packet: the packet is serialized
Codec_Serialize ==
  /\ c_stage = "built"
  /\ c_stage' = "wire"
  /\ c_buf' = serialize(c_pkt)
  /\ UNCHANGED <<c_pkt, c_damage, c_got, c_verified, net, chan, svars, rvars>>

\* the network inverts bit b of byte i of the buffer, outside the checksum
Codec_FlipBit(i, b) ==
  /\ c_stage = "wire"
  /\ c_damage = "none"
  /\ i \in DOMAIN c_buf \ {3, 4}
  /\ c_buf' = [c_buf EXCEPT ![i] = FlipBit(@, b)]
  /\ c_damage' = "flip"
  /\ UNCHANGED <<c_stage, c_pkt, c_got, c_verified, net, chan, svars, rvars>>

\* only the first n bytes of the buffer arrive
Codec_Truncate(n) ==
  /\ c_stage = "wire"
  /\ c_damage = "none"
  /\ n < Len(c_buf)
  /\ c_buf' = SubSeq(c_buf, 1, n)
  /\ c_damage' = "short"
  /\ UNCHANGED <<c_stage, c_pkt, c_got, c_verified, net, chan, svars, rvars>>

\* receive_packet and the caller's verify_checksum(); with data_length above
\* MAX_DATA_SIZE calculate_checksum reads past the data array, and
\* verify_checksum() may then say anything
Codec_Deserialize ==
  /\ c_stage = "wire"
  /\ c_stage' = "read"
  /\ c_got' = deserialize(c_buf)
  /\ c_verified' \in IF DataLengthOf(c_got'.header) > MAX_DATA_SIZE THEN BOOLEAN
                     ELSE {verify_checksum(c_got')}
  /\ UNCHANGED <<c_pkt, c_buf, c_damage, net, chan, svars, rvars>>

NextCodec ==
  \/ Codec_Serialize
  \/ \E i \in 1 .. (HEADER_SIZE + MaxCodecData + SACK_BLOCK_SIZE), b \in 0 .. 7 :
       Codec_FlipBit(i, b)
  \/ \E n \in 0 .. (HEADER_SIZE + MaxCodecData + SACK_BLOCK_SIZE) : Codec_Truncate(n)
  \/ Codec_Deserialize

\* serialize, damage on the way, deserialize and verify, for every
\* well-formed packet of CodecPackets
SpecCodec == InitCodec /\ [][NextCodec]_vars

\* ---------------------------------------------- datagrams of any endpoint
\* the largest packet the programs build, and the buffer of receive_packet
MAX_PACKET_SIZE == MAX_DATA_SIZE + HEADER_SIZE
RECV_BUFFER_SIZE == MAX_PACKET_SIZE * 2

\* the values of data_length and the lengths of the datagrams recvfrom may
\* return: none, one byte, the largest of the protocol, one more, and what
\* fills the buffer
DatagramDataLengths ==
  {0, 1, MAX_DATA_SIZE, MAX_DATA_SIZE + 1, RECV_BUFFER_SIZE - HEADER_SIZE}
DatagramLengths ==
  {HEADER_SIZE, HEADER_SIZE + 1, MAX_PACKET_SIZE, MAX_PACKET_SIZE + 1,
   RECV_BUFFER_SIZE}

\* datagrams as any endpoint may send them: a header with any data_length
\* and sack_count, followed by bytes of one value up to the length n
Datagrams ==
  {HeaderBytes(t, 1, 2, WINDOW_SIZE, len, count)
     \o [i \in 1 .. (n - HEADER_SIZE) |-> b] :
     t \in {TYPE_DATA, TYPE_ACK}, len \in DatagramDataLengths, count \in {0, 1},
     n \in DatagramLengths, b \in {0, 255}}

\* recvfrom has filled the buffer of receive_packet with a datagram
InitDatagram ==
  /\ net = {}
  /\ channel = "none"
  /\ drops = 0
  /\ file_chunks = FileChunks
  /\ EndpointsInit
  /\ c_stage = "wire"
  /\ c_pkt = EmptyPacket
  /\ c_buf \in Datagrams
  /\ c_damage = "foreign"
  /\ c_got = EmptyPacket
  /\ c_verified = FALSE

\* receive_packet deserializes whatever recvfrom returned
SpecDatagram == InitDatagram /\ [][Codec_Deserialize]_vars

\* ================================================================== claims
\* the first DATA sequence number, and the payload written for sequence k
FirstDataSeq == ISN + 1
PayloadOf(k) == [data |-> ChunkBytes(k - FirstDataSeq),
                 data_length |-> ChunkSize(k - FirstDataSeq)]
InSendFile == s_pc \in {"fill", "recv", "timeout"}
InFlight == DOMAIN sent_packets \cup DOMAIN send_times
\* the sequence numbers of the DATA packets the sender's last step sent
DataSent == {s_out[i].seq_num : i \in {j \in DOMAIN s_out : s_out[j].type = "DATA"}}

\* C1: the bytes in the sink are the payloads of the sequence numbers
\* FirstDataSeq .. expected_seq - 1, in that order, each once
C1_SinkIsDeliveredPrefix ==
  sink = [i \in 1 .. (expected_seq - FirstDataSeq) |-> PayloadOf(FirstDataSeq + i - 1)]

\* the transfer is complete: send_file has returned with every chunk
\* acknowledged and the sink holds the file
Completed ==
  /\ s_pc \in {"sent", "fin_wait", "done"}
  /\ base = FirstDataSeq + TotalPackets
  /\ sink = [i \in 1 .. TotalPackets |-> PayloadOf(FirstDataSeq + i - 1)]

\* C2: over a channel with fair loss a transfer started with connect()
\* eventually completes: send_file returns with base = first data sequence
\* + number of chunks and the sink holds the file byte for byte
C2_TransferCompletes == <>Completed

\* C3: a DATA packet whose sequence number is in received_seqs writes nothing,
\* leaves recv_buffer, received_seqs and expected_seq alone, and is answered
\* by exactly one ACK with ack_num = expected_seq
C3_DuplicateDataIsAcked ==
  [][\A m \in net :
       (Handle_Data(m) /\ m.seq_num \in received_seqs)
       => /\ sink' = sink
          /\ UNCHANGED <<recv_buffer, received_seqs, expected_seq>>
          /\ Len(r_out') = 1
          /\ r_out'[1].type = "ACK"
          /\ r_out'[1].ack_num = expected_seq]_vars

C6_InFlightKeysInWindow ==
  \A k \in InFlight : base <= k /\ k < next_seq_num

\* a new ACK has moved base while later packets stay in flight
C6_Witness ==
  /\ s_pc = "timeout"
  /\ base > FirstDataSeq
  /\ base \in InFlight
  /\ sacked # {}

\* C7: no handled datagram makes expected_seq smaller
C7_ExpectedSeqMonotonic == [][expected_seq' >= expected_seq]_vars

\* C8: the receiver leaves ESTABLISHED only by handling a FIN
C8_EstablishedUntilFin ==
  [][(r_state = "ESTABLISHED" /\ r_state' # "ESTABLISHED")
     => \E m \in net : Handle_Fin(m)]_vars

\* C9: the third duplicate ACK, and neither the first nor the second,
\* retransmits the acknowledged sequence if it is in flight, sets ssthresh =
\* max(floor(cwnd/2), 2) and cwnd = ssthresh + 3 and enters FAST_RECOVERY
C9_FastRetransmitOnThirdDuplicate ==
  [][(s_pc = "recv" /\ duplicate_acks' = duplicate_acks + 1)
     => IF duplicate_acks' = 3 /\ last_acked \in DOMAIN sent_packets
        THEN /\ s_out' = <<sent_packets[last_acked]>>
             /\ ssthresh' = Max2(RatHalfFloor(cwnd), 2)
             /\ cwnd' = RatInt(ssthresh' + 3)
             /\ cong_state' = "FAST_RECOVERY"
        ELSE duplicate_acks' < 3
             => s_out' = <<>> /\ UNCHANGED <<ssthresh, cwnd, cong_state>>]_vars

\* C10: a sequence number covered by a processed SACK block is in neither
\* sent_packets nor send_times, and no step of the sender sends it
C10_SackedNeverResent ==
  /\ sacked \cap InFlight = {}
  /\ sacked \cap DataSent = {}

\* a timeout scan retransmits while another sequence number has been SACKed
C10_Witness ==
  /\ s_pc = "fill"
  /\ sacked # {}
  /\ DataSent # {}

\* a step of connect(): the first SYN or one iteration of its loop
ConnectStep == Connect_Start \/ \E m \in Inbox(SenderAddr) : Connect_Loop(m)
\* the SYN packets among the datagrams of out
Syns(out) == {i \in DOMAIN out : out[i].type = "SYN"}

\* C13: connect() sends the SYN once and retransmits it at most MAX_RETRIES
\* times, each time only after more than TIMEOUT_MS; it fails exactly when
\* the retries are exhausted, and it succeeds only on a valid SYN_ACK, with
\* state ESTABLISHED and base = next_seq_num = ISN + 1
C13_ConnectRetries ==
  [][ConnectStep =>
       /\ Cardinality(Syns(s_out')) <= 1
       /\ syn_retries' <= MAX_RETRIES
       /\ (s_pc = "connect" /\ Syns(s_out') # {})
            => /\ syn_send_time > TIMEOUT_MS
               /\ syn_retries' = syn_retries + 1
       /\ (s_pc = "connect" /\ Syns(s_out') = {}) => syn_retries' = syn_retries
       /\ (s_pc' = "connect_failed") <=> (s_pc = "connect" /\ syn_retries = MAX_RETRIES)
       /\ (s_pc' = "connected")
            => /\ syn_retries < MAX_RETRIES
               /\ \E m \in net : m.dst = SenderAddr /\ m.type = "SYN_ACK" /\ m.ok
               /\ s_state' = "ESTABLISHED"
               /\ base' = ISN + 1
               /\ next_seq_num' = ISN + 1]_vars

\* connect() has failed after the last retransmission
C13_Witness ==
  /\ s_pc = "connect_failed"
  /\ syn_retries = MAX_RETRIES
  /\ s_state = "SYN_SENT"

\* the datagrams of type t that the sender has sent so far (the unreliable
\* channel keeps every datagram sent)
SentByType(t) == {m \in net : m.src = SenderAddr /\ m.type = t}
\* the valid datagrams of type t that have been sent to the sender
ValidFor(t) == {m \in net : m.dst = SenderAddr /\ m.type = t /\ m.ok}
AfterFileNameAck == s_pc \in {"fill", "recv", "timeout", "sent", "fin_wait", "done"}

\* C14: no DATA packet is sent before a valid FILE_NAME_ACK has been
\* received, no FILE_NAME before connect() has succeeded, and none at all
\* after wait_for_file_name_ack has given up
C14_FileNameGate ==
  /\ SentByType("DATA") # {} => AfterFileNameAck
  /\ AfterFileNameAck => ValidFor("FILE_NAME_ACK") # {}
  /\ SentByType("FILE_NAME") # {}
       => /\ s_pc \notin {"start", "connect", "connect_failed"}
          /\ ValidFor("SYN_ACK") # {}
  /\ s_pc = "name_failed" => SentByType("DATA") = {}

\* wait_for_file_name_ack has given up after its last retransmission
C14_Witness ==
  /\ s_pc = "name_failed"
  /\ name_retries = MAX_RETRIES
  /\ SentByType("FILE_NAME") # {}
  /\ r_state = "ESTABLISHED"

\* C15: disconnect() retransmits the FIN at most MAX_RETRIES times, and when
\* it has returned the connection state of the sender is CLOSED, whether a
\* FIN_ACK was received or the retries were exhausted
C15_DisconnectCloses ==
  /\ fin_retries <= MAX_RETRIES
  /\ s_pc = "done" => s_state = "CLOSED"

\* C19: in every reachable state cwnd >= 1 and ssthresh >= 2
C19_CwndAndSsthreshFloors ==
  /\ RatGeq(cwnd, 1)
  /\ ssthresh >= 2

\* a timeout has halved the threshold of a window below 4 and reset cwnd
C19_Witness ==
  /\ s_pc = "fill"
  /\ DataSent # {}
  /\ ssthresh = 2
  /\ cwnd = RatInt(1)
  /\ cong_state = "SLOW_START"
  /\ base > FirstDataSeq

C11_LockOnlyOnSynAck ==
  [][(~server_locked /\ server_locked')
     => \E m \in net : /\ m.dst = SenderAddr
                       /\ m.type = "SYN_ACK"
                       /\ m.ok
                       /\ server_addr' = m.src]_vars

\* a step of the sender that reads the datagram m from its socket
SenderReads(m) ==
  \/ Connect_Loop(m)
  \/ WaitFileNameAck_Loop(m)
  \/ SendFile_Recv(m)
  \/ Disconnect_Loop(m)
\* a step of the receiver that reads the datagram m from its socket
ReceiverReads(m) ==
  \/ Handle_Syn(m)
  \/ Handle_Ack_Handshake(m)
  \/ Handle_File_Name(m)
  \/ Handle_Data(m)
  \/ Handle_Fin(m)
  \/ Handle_Other(m)
  \/ R_Discard(m)
\* what the retransmission timers of the sender's loops send
TimerResends == {<<>>, <<SynPacket>>, <<NamePacket>>, <<FinPacket>>}

\* C12: once a peer is locked, a datagram of another endpoint is read and
\* discarded: the receiver sends nothing and keeps its connection state,
\* expected_seq, recv_buffer, received_seqs and the sink; the sender sends no
\* reply and keeps its connection state, base, next_seq_num, sent_packets,
\* send_times, cwnd, ssthresh and duplicate_acks
C12_ForeignDatagramDiscarded ==
  [][\A m \in net :
       /\ (ReceiverReads(m) /\ client_locked /\ m.src # client_addr)
            => /\ r_out' = <<>>
               /\ UNCHANGED <<r_state, r_running, r_buf, r_file>>
       /\ (SenderReads(m) /\ server_locked /\ m.src # server_addr)
            => /\ s_out' \in TimerResends
               /\ UNCHANGED <<s_state, s_win, s_cc, server_addr>>]_vars

\* a datagram of the third party is in flight to each locked program during
\* the transfer
C12_Witness ==
  /\ client_locked /\ server_locked
  /\ client_addr = SenderAddr /\ server_addr = ReceiverAddr
  /\ r_state = "ESTABLISHED" /\ s_pc = "recv"
  /\ sent_packets # <<>>
  /\ \E m \in net : m.src = IntruderAddr /\ m.dst = SenderAddr /\ m.type = "ACK" /\ m.ok

\* C16: for every well-formed packet p, deserialize(serialize(p)) has the
\* header, the data_length payload bytes and the SACK blocks of p, and
\* verify_checksum() is true on it
C16_CodecRoundTrip ==
  (c_stage = "read" /\ c_damage = "none")
    => /\ c_got.header = c_pkt.header
       /\ DataArea(c_got, DataLengthOf(c_pkt.header))
            = DataArea(c_pkt, DataLengthOf(c_pkt.header))
       /\ c_got.sack_blocks = c_pkt.sack_blocks
       /\ c_verified

\* a packet with a payload and a SACK block has made the round trip
C16_Witness ==
  /\ c_stage = "read"
  /\ c_damage = "none"
  /\ Len(c_got.data) = MaxCodecData
  /\ Len(c_got.sack_blocks) = 1
  /\ c_got.data[1] = 255

\* C17: a serialized well-formed packet with one bit inverted outside the
\* checksum field deserializes to a packet that fails verify_checksum()
C17_BitFlipDetected ==
  (c_stage = "read" /\ c_damage = "flip") => ~c_verified

\* C18: a buffer shorter than the header, or shorter than the header, the
\* payload and the SACK blocks its header announces, deserializes to a
\* packet that fails verify_checksum()
C18_ShortBufferRejected ==
  (c_stage = "read" /\ c_damage = "short") => ~c_verified

\* the sequence numbers of the DATA packets sent so far (the unreliable
\* channel keeps every datagram sent)
DataSeqsSent == {m.seq_num : m \in SentByType("DATA")}
\* the positions in out of the DATA packets whose sequence number has not
\* been sent before
FirstSends(out) ==
  {i \in DOMAIN out : out[i].type = "DATA" /\ out[i].seq_num \notin DataSeqsSent}

\* C21: a DATA packet sent for the first time has a larger sequence number
\* than every DATA packet sent before it, and every DATA packet sent with
\* the sequence number of an earlier one has the payload and data_length
\* of that one
C21_DataOrderAndBinding ==
  [][/\ \A i \in FirstSends(s_out') :
          /\ \A q \in DataSeqsSent : q < s_out'[i].seq_num
          /\ \A j \in FirstSends(s_out') : j < i => s_out'[j].seq_num < s_out'[i].seq_num
     /\ \A i \in DOMAIN s_out' : \A m \in SentByType("DATA") :
          (s_out'[i].type = "DATA" /\ s_out'[i].seq_num = m.seq_num)
            => /\ s_out'[i].data = m.data
               /\ s_out'[i].data_length = m.data_length]_vars

\* the last, shorter chunk has been sent and an earlier sequence number is
\* retransmitted after it
C21_Witness ==
  /\ next_seq_num = FirstDataSeq + TotalPackets
  /\ DataSent # {}
  /\ \A q \in DataSent : q < next_seq_num - 1
  /\ s_pc \in {"fill", "timeout"}

\* C22: every key of recv_buffer is at least expected_seq
C22_BufferedKeysNotStale == \A k \in DOMAIN recv_buffer : k >= expected_seq

\* a packet is buffered out of order after an earlier one was delivered
C22_Witness ==
  /\ expected_seq > FirstDataSeq
  /\ DOMAIN recv_buffer = {expected_seq + 1}
  /\ Len(sink) = 1
  /\ Len(r_out) = 1
  /\ r_out[1].type = "ACK"
  /\ r_out[1].ack_num = expected_seq

\* the packet m is not one the receiver expects in its connection state: a
\* DATA or FILE_NAME packet before the handshake is complete, an ACK that is
\* not the ACK of the handshake in progress, or a packet of a type that
\* handle_packet has no case for
Unexpected(m) ==
  \/ m.type \in {"DATA", "FILE_NAME"} /\ r_state # "ESTABLISHED"
  \/ m.type = "ACK" /\ (r_state # "SYN_RECEIVED" \/ m.ack_num # 1)
  \/ m.type \notin HandledTypes

\* C23: a valid packet that is unexpected in the receiver's connection state
\* is ignored: the receiver sends nothing, keeps its connection state, peer
\* lock, expected_seq, recv_buffer, received_seqs and sink, and keeps running
C23_UnexpectedPacketIgnored ==
  [][\A m \in net :
       (ReceiverReads(m) /\ R_FromPeer(m) /\ m.ok /\ Unexpected(m))
         => /\ r_out' = <<>>
            /\ UNCHANGED <<r_state, client_locked, client_addr, r_buf, r_file>>
            /\ r_running']_vars

\* C24: a timeout scan that retransmits leaves cwnd = 1, SLOW_START,
\* duplicate_acks = 0 and ssthresh = max(floor(c / 2), 2) for the cwnd c
\* before the scan, however many entries had timed out
C24_TimeoutHalvesOnce ==
  [][(SendFile_Timeout /\ s_out' # <<>>)
     => /\ cwnd' = RatInt(1)
        /\ cong_state' = "SLOW_START"
        /\ duplicate_acks' = 0
        /\ ssthresh' = Max2(RatHalfFloor(cwnd), 2)]_vars

\* C25: during send_file every valid ACK whose ack_num equals base is
\* counted as a duplicate ACK, also while base is still the first data
\* sequence number
C25_AckOfBaseIsDuplicate ==
  [][\A m \in net :
       (SendFile_Recv(m) /\ S_Received(m) /\ m.type = "ACK" /\ m.ok
          /\ m.ack_num = base)
         => duplicate_acks' = duplicate_acks + 1]_vars

\* the sequence numbers received above expected_seq
AboveExpected == {x \in received_seqs : x > expected_seq}

\* C26: an ACK of the receiver carries ack_num = expected_seq, window_size =
\* WINDOW_SIZE and at most three SACK blocks; each block is a maximal run of
\* consecutive received sequence numbers above expected_seq, the blocks are
\* in ascending order, disjoint and not adjacent, they are the lowest runs,
\* and sack_count is the number of blocks
C26_AckAndSackBlocks ==
  \A i \in DOMAIN r_out :
    r_out[i].type = "ACK" =>
      LET blocks == r_out[i].sack_blocks
      IN /\ r_out[i].ack_num = expected_seq
         /\ r_out[i].window_size = WINDOW_SIZE
         /\ Len(blocks) <= 3
         /\ r_out[i].sack_count = Len(blocks)
         /\ \A j \in DOMAIN blocks :
              /\ blocks[j].left_edge < blocks[j].right_edge
              /\ \A x \in blocks[j].left_edge .. blocks[j].right_edge - 1 :
                   x \in AboveExpected
              /\ blocks[j].left_edge - 1 \notin AboveExpected
              /\ blocks[j].right_edge \notin AboveExpected
              /\ \A k \in DOMAIN blocks :
                   j < k => blocks[j].right_edge < blocks[k].left_edge
         /\ \A x \in AboveExpected :
              \/ \E j \in DOMAIN blocks :
                   blocks[j].left_edge <= x /\ x < blocks[j].right_edge
              \/ Len(blocks) = 3 /\ x > blocks[3].right_edge

\* an ACK with three blocks while a fourth run has been received
C26_Witness ==
  /\ Len(r_out) = 1
  /\ r_out[1].type = "ACK"
  /\ Len(r_out[1].sack_blocks) = 3
  /\ r_out[1].sack_count = 3
  /\ \E x \in received_seqs : x > r_out[1].sack_blocks[3].right_edge

\* the datagram m is a valid ACK that send_file passes to handle_ack
AckHandled(m) == SendFile_Recv(m) /\ S_Received(m) /\ m.type = "ACK" /\ m.ok
\* the sequence number k lies in one of the SACK blocks
InBlocks(blocks, k) ==
  \E j \in DOMAIN blocks : blocks[j].left_edge <= k /\ k < blocks[j].right_edge

\* C27: handling an ACK with ack_num a > base sets base = a and last_acked =
\* a, resets duplicate_acks, removes from sent_packets and send_times
\* exactly the entries with key < a and leaves next_seq_num; an ACK with
\* a <= base leaves base
C27_NewAckRemovesBelow ==
  [][\A m \in net :
       AckHandled(m) =>
         IF m.ack_num > base
         THEN /\ base' = m.ack_num
              /\ last_acked' = m.ack_num
              /\ duplicate_acks' = 0
              /\ next_seq_num' = next_seq_num
              /\ DOMAIN sent_packets' = {k \in DOMAIN sent_packets : k >= m.ack_num}
              /\ DOMAIN send_times' = {k \in DOMAIN send_times : k >= m.ack_num}
         ELSE base' = base]_vars

\* C27, amended: as C27, but of the entries with key >= a those that lie in
\* a SACK block of the ACK are removed as well
C27_NewAckRemovesBelowAndSacked ==
  [][\A m \in net :
       AckHandled(m) =>
         IF m.ack_num > base
         THEN /\ base' = m.ack_num
              /\ last_acked' = m.ack_num
              /\ duplicate_acks' = 0
              /\ next_seq_num' = next_seq_num
              /\ DOMAIN sent_packets' =
                   {k \in DOMAIN sent_packets :
                      k >= m.ack_num /\ ~InBlocks(m.sack_blocks, k)}
              /\ DOMAIN send_times' =
                   {k \in DOMAIN send_times :
                      k >= m.ack_num /\ ~InBlocks(m.sack_blocks, k)}
         ELSE base' = base]_vars

\* an ACK has advanced base past one entry and its SACK block has removed
\* another, while a third stays in flight
C27_Witness ==
  /\ s_pc = "timeout"
  /\ base = last_acked
  /\ base > FirstDataSeq + 1
  /\ duplicate_acks = 0
  /\ DOMAIN sent_packets = {base}
  /\ sacked = {base + 1}
  /\ next_seq_num = base + 2

\* the fraction y is the fraction x plus 1, and x plus 1 / x
IsPlusOne(y, x) == y[1] * x[2] = (x[1] + x[2]) * y[2]
IsPlusInverse(y, x) == y[1] * x[1] * x[2] = (x[1] * x[1] + x[2] * x[2]) * y[2]

\* C28: on an ACK that advances the window, SLOW_START adds 1 to cwnd and
\* becomes CONGESTION_AVOIDANCE iff the new cwnd >= ssthresh,
\* CONGESTION_AVOIDANCE adds 1 / cwnd and stays, FAST_RECOVERY sets cwnd =
\* ssthresh and becomes CONGESTION_AVOIDANCE; ssthresh is unchanged
C28_CwndOnWindowAdvance ==
  [][\A m \in net :
       (AckHandled(m) /\ m.ack_num > base) =>
         /\ ssthresh' = ssthresh
         /\ cong_state = "SLOW_START" =>
              /\ IsPlusOne(cwnd', cwnd)
              /\ cong_state' = IF cwnd'[1] >= ssthresh * cwnd'[2]
                                THEN "CONGESTION_AVOIDANCE" ELSE "SLOW_START"
         /\ cong_state = "CONGESTION_AVOIDANCE" =>
              /\ IsPlusInverse(cwnd', cwnd)
              /\ cong_state' = "CONGESTION_AVOIDANCE"
         /\ cong_state = "FAST_RECOVERY" =>
              /\ cwnd' = <<ssthresh, 1>>
              /\ cong_state' = "CONGESTION_AVOIDANCE"]_vars

\* congestion avoidance has added 1 / cwnd to a cwnd of 2
C28_Witness ==
  /\ s_pc = "timeout"
  /\ cong_state = "CONGESTION_AVOIDANCE"
  /\ cwnd = <<5, 2>>
  /\ ssthresh = 2
  /\ duplicate_acks = 0
  /\ base = last_acked

\* the sender's state after the part of handle_ack that precedes the loop
\* over the SACK blocks of the ACK p
BeforeSackLoop(p) ==
  IF p.ack_num > base THEN AckCumulative(SenderState, p.ack_num)
  ELSE IF p.ack_num = last_acked THEN AckDuplicate(SenderState, p.ack_num)
  ELSE SenderState

\* C29: the loop over the SACK blocks of an ACK removes from sent_packets
\* and send_times the entries whose sequence number lies in a block and no
\* other entry, and leaves base, next_seq_num, cwnd, ssthresh, cong_state,
\* duplicate_acks and last_acked as the part of handle_ack before it left
\* them; it sends nothing
C29_SackOnlyErases ==
  [][\A m \in net :
       AckHandled(m) =>
         LET st == BeforeSackLoop(m)
         IN /\ base' = st.base
            /\ next_seq_num' = next_seq_num
            /\ cwnd' = st.cwnd
            /\ ssthresh' = st.ssthresh
            /\ cong_state' = st.cong_state
            /\ duplicate_acks' = st.duplicate_acks
            /\ last_acked' = st.last_acked
            /\ s_out' = st.out
            /\ DOMAIN sent_packets' =
                 {k \in DOMAIN st.sent_packets : ~InBlocks(m.sack_blocks, k)}
            /\ DOMAIN send_times' =
                 {k \in DOMAIN st.send_times : ~InBlocks(m.sack_blocks, k)}
            /\ \A k \in DOMAIN sent_packets' : sent_packets'[k] = st.sent_packets[k]
            /\ \A k \in DOMAIN send_times' : send_times'[k] = st.send_times[k]]_vars

\* a duplicate ACK with a SACK block has removed the later of two
\* sequence numbers in flight
C29_Witness ==
  /\ s_pc = "timeout"
  /\ duplicate_acks = 1
  /\ sacked = {base + 1}
  /\ DOMAIN sent_packets = {base}
  /\ DOMAIN send_times = {base}
  /\ next_seq_num = base + 2

\* C30: the receiver drops a datagram that fails verify_checksum(): it
\* sends nothing and keeps its connection state, expected_seq, recv_buffer,
\* received_seqs, peer lock and sink; a datagram read in send_file that is
\* not a valid ACK leaves base, next_seq_num, sent_packets, send_times, cwnd,
\* ssthresh, cong_state and duplicate_acks
C30_InvalidDatagramDropped ==
  [][\A m \in net :
       /\ (ReceiverReads(m) /\ ~m.ok)
            => /\ r_out' = <<>>
               /\ UNCHANGED <<r_state, r_running, client_locked, client_addr,
                              r_buf, r_file>>
       /\ (SendFile_Recv(m) /\ ~(m.type = "ACK" /\ m.ok))
            => UNCHANGED <<base, next_seq_num, sent_packets, send_times,
                           cwnd, ssthresh, cong_state, duplicate_acks>>]_vars

\* an ACK that would advance the window and a DATA packet that would be
\* delivered are both in flight, one of them damaged
C30_Witness ==
  /\ s_pc = "recv"
  /\ r_state = "ESTABLISHED"
  /\ \E m \in net : m.dst = SenderAddr /\ m.type = "ACK" /\ m.ack_num > base
  /\ \E m \in net : m.dst = ReceiverAddr /\ m.type = "DATA" /\ m.seq_num = expected_seq
  /\ \E m \in net : ~m.ok

\* C31: a FIN that verifies is handled in whatever connection state the
\* receiver is: the step sends exactly one datagram, a FIN_ACK to the FIN's
\* sender with ack_num = seq_num of the FIN + 1, leaves the sink closed,
\* sets the state to CLOSED and ends the receive loop
C31_FinClosesReceiver ==
  [][\A m \in net :
       (ReceiverReads(m) /\ R_Accepted(m) /\ m.type = "FIN")
         => /\ Len(r_out') = 1
            /\ r_out'[1].type = "FIN_ACK"
            /\ r_out'[1].ack_num = m.seq_num + 1
            /\ r_out'[1].dst = m.src
            /\ r_out'[1] \in net'
            /\ ~out_open'
            /\ sink' = sink
            /\ r_state' = "CLOSED"
            /\ ~r_running']_vars
\* a FIN was handled while the sink was open and held a chunk
C31_Witness ==
  /\ ~r_running
  /\ r_state = "CLOSED"
  /\ Len(r_out) = 1
  /\ r_out[1].type = "FIN_ACK"
  /\ Len(sink) >= 1
  /\ ~out_open

\* C32: when the handshake and the file name exchange are delivered and the
\* channel loses only finitely many DATA and ACK datagrams, send_file
\* eventually returns with every chunk acknowledged and from then on the
\* sink holds the source file byte for byte; a DATA datagram that was lost
\* is therefore sent again, by the fast retransmit or by the timeout scan
C32_LossOfDataRepaired == <>[]Completed
\* the transfer has completed although the channel lost DATA or ACK
\* datagrams
C32_Witness ==
  /\ Completed
  /\ drops = MaxDataDrops
  /\ channel = "prompt"

C34_BaseAtMostExpected == base <= expected_seq

\* C35: in every reachable joint state a sequence number of the sender's
\* window, base <= k < next_seq_num, that is missing from sent_packets or from send_times is
\* in the receiver's received_set
C35_ErasedIsReceived ==
  \A k \in base .. (next_seq_num - 1) :
    (k \notin DOMAIN sent_packets \/ k \notin DOMAIN send_times)
      => k \in received_seqs
\* a DATA packet above base has been erased by a SACK block while the packet
\* at base is still in flight
C35_Witness ==
  /\ InSendFile
  /\ base \in InFlight
  /\ \E k \in (base + 1) .. (next_seq_num - 1) :
       k \notin InFlight /\ k \in received_seqs

\* C36: when the receiver handles a FIN of the sender's disconnect(), every
\* DATA chunk of the file has been written to the sink and reorder_buffer is
\* empty
C36_FinAfterWholeFile ==
  [][\A m \in net :
       (Handle_Fin(m) /\ m \in Range(s_out) \cup {FinPacket})
         => /\ sink = [i \in 1 .. TotalPackets |-> PayloadOf(FirstDataSeq + i - 1)]
            /\ DOMAIN recv_buffer = {}]_vars

\* the receiver has handled the FIN and its FIN_ACK did not reach the
\* sender, which waits for it in disconnect()
FinAckLost ==
  /\ ~r_running
  /\ s_pc = "fin_wait"
  /\ \A m \in net : ~(m.type = "FIN_ACK" /\ m.dst = SenderAddr)

\* C37: the step that handles a FIN sends one FIN_ACK and ends the receive
\* loop, and from then on the receiver takes no step and sends no datagram;
\* so a FIN that disconnect() sends again is not answered, and disconnect()
\* ends either by reading a FIN_ACK or with its 5 retries exhausted, which
\* is how it ends whenever the FIN_ACK is lost
C37_NothingAfterFinAck ==
  /\ [][/\ \A m \in net :
             (ReceiverReads(m) /\ R_Accepted(m) /\ m.type = "FIN")
               => /\ Len(r_out') = 1
                  /\ r_out'[1].type = "FIN_ACK"
                  /\ ~r_running'
        /\ ~r_running
             => /\ UNCHANGED rvars
                /\ \A d \in net' \ net : d.src # ReceiverAddr
        /\ (s_pc = "fin_wait" /\ s_pc' = "done")
             => \/ \E m \in net : /\ Disconnect_Loop(m)
                                   /\ m.type = "FIN_ACK"
                                   /\ m.ok
                                   /\ m.src = ReceiverAddr
                \/ fin_retries = MAX_RETRIES]_vars
  /\ FinAckLost ~> (s_pc = "done" /\ fin_retries = MAX_RETRIES)
\* the receiver has handled the FIN, its FIN_ACK was never read, and
\* disconnect() has ended with its retries exhausted
C37_Witness ==
  /\ ~r_running
  /\ Len(r_out) = 1
  /\ r_out[1].type = "FIN_ACK"
  /\ s_pc = "done"
  /\ fin_retries = MAX_RETRIES
  /\ s_state = "FIN_WAIT"

\* C38: a FILE_NAME packet handled again while the receiver is ESTABLISHED
\* and the sink is open is answered with one FILE_NAME_ACK with ack_num =
\* seq_num + 1 and leaves expected_seq, reorder_buffer, received_set and the
\* bytes in the sink as they are; and a DATA packet with seq_num =
\* expected_seq handled later for the first time still adds its payload to
\* the sink
C38_RepeatedFileNameHarmless ==
  [][/\ \A m \in net :
          (Handle_File_Name(m) /\ r_state = "ESTABLISHED" /\ out_open)
            => /\ Len(r_out') = 1
               /\ r_out'[1].type = "FILE_NAME_ACK"
               /\ r_out'[1].ack_num = m.seq_num + 1
               /\ UNCHANGED r_buf
               /\ sink' = sink
     /\ \A m \in net :
          (Handle_Data(m) /\ r_state = "ESTABLISHED" /\ out_open
             /\ m.seq_num = expected_seq /\ m.seq_num \notin received_seqs)
            => /\ Len(sink') > Len(sink)
               /\ sink'[Len(sink) + 1].data = m.data]_vars

\* C39: whatever datagram of at most RECV_BUFFER_SIZE bytes was received,
\* deserialize copies at most MAX_DATA_SIZE bytes into the data array of the
\* packet (c_got.data is what the copy of deserialize wrote, from data[0] on)
C39_CopyWithinDataArray ==
  c_stage = "read" => Len(c_got.data) <= MAX_DATA_SIZE

\* ------------------------------------------- send_file with an open window
\* congestion states of send_file on a long file: slow start after a timeout
\* and before ssthresh, congestion avoidance at ssthresh, and fast recovery
\* inflated by duplicate ACKs beyond WINDOW_SIZE (ssthresh = 8, cwnd =
\* ssthresh + 3 + one per duplicate ACK after the second)
WindowCongestion ==
  {[cong_state |-> "SLOW_START", cwnd |-> RatInt(1),
    ssthresh |-> WINDOW_SIZE \div 2, duplicate_acks |-> 0],
   [cong_state |-> "SLOW_START", cwnd |-> RatInt(WINDOW_SIZE - 1),
    ssthresh |-> WINDOW_SIZE, duplicate_acks |-> 0],
   [cong_state |-> "CONGESTION_AVOIDANCE", cwnd |-> RatInt(WINDOW_SIZE),
    ssthresh |-> WINDOW_SIZE, duplicate_acks |-> 0],
   [cong_state |-> "FAST_RECOVERY", cwnd |-> RatInt(WINDOW_SIZE + 1),
    ssthresh |-> WINDOW_SIZE \div 2,
    duplicate_acks |-> DUP_ACK_TRIGGER + WINDOW_SIZE \div 2 - 2],
   [cong_state |-> "FAST_RECOVERY", cwnd |-> RatInt(WINDOW_SIZE + 4),
    ssthresh |-> WINDOW_SIZE \div 2,
    duplicate_acks |-> DUP_ACK_TRIGGER + WINDOW_SIZE \div 2 + 1]}

\* the numbers of DATA packets in flight at the top of the outer loop
WindowInFlight == {0, 1, WINDOW_SIZE - 1, WINDOW_SIZE}

\* send_file at the top of its outer loop on a file of WindowFileChunks
\* chunks, the first WINDOW_SIZE of them delivered and acknowledged, with
\* the packets base .. next_seq_num - 1 in flight, all just sent or all
\* timed out, and the receiver as it is after these chunks
InitWindow ==
  /\ net = {}
  /\ channel = "prompt"
  /\ drops = 0
  /\ file_chunks = WindowFileChunks
  /\ CodecIdle
  /\ s_pc = "fill"
  /\ s_state = "ESTABLISHED"
  /\ seq_num = ISN + 1
  /\ base = seq_num + WINDOW_SIZE
  /\ next_seq_num \in {base + n : n \in WindowInFlight}
  /\ sent_packets = [k \in base .. (next_seq_num - 1) |-> DataPacket(k)]
  /\ \E age \in {0, AgeCap} :
       send_times = [k \in base .. (next_seq_num - 1) |-> age]
  /\ syn_send_time = 0
  /\ name_send_time = 0
  /\ fin_send_time = 0
  /\ syn_retries = 0
  /\ name_retries = 0
  /\ fin_retries = 0
  /\ \E cc \in WindowCongestion :
       /\ cong_state = cc.cong_state
       /\ cwnd = cc.cwnd
       /\ ssthresh = cc.ssthresh
       /\ duplicate_acks = cc.duplicate_acks
  /\ last_acked = base
  /\ server_locked = TRUE
  /\ server_addr = ReceiverAddr
  /\ s_out = <<>>
  /\ sacked = {}
  /\ r_running = TRUE
  /\ r_state = "ESTABLISHED"
  /\ expected_seq = base
  /\ recv_buffer = <<>>
  /\ received_seqs = FirstDataSeq .. (base - 1)
  /\ client_locked = TRUE
  /\ client_addr = SenderAddr
  /\ out_open = TRUE
  /\ out_fail = FALSE
  /\ sink = [i \in 1 .. WINDOW_SIZE |-> PayloadOf(FirstDataSeq + i - 1)]
  /\ r_out = <<>>

\* the server has read the DATA packets in flight and answers with one ACK
\* for a sequence number of the window, without SACK blocks; it stops
\* acknowledging new data once the denominator of cwnd has passed MaxCwndDen
Server_Ack(a) ==
  /\ s_pc \in {"fill", "recv", "timeout"}
  /\ a \in base .. next_seq_num
  /\ a > base => cwnd[2] <= MaxCwndDen
  /\ \A m \in net : m.dst # SenderAddr
  /\ net' = {AckPacket({}, a, SenderAddr)}
  /\ UNCHANGED <<chan, codec, svars, rvars>>

NextWindow ==
  \/ SendFile_Fill
  \/ \E m \in Inbox(SenderAddr) : SendFile_Recv(m)
  \/ SendFile_Timeout
  \/ \E a \in (ISN + 1) .. (ISN + 1 + WindowFileChunks) : Server_Ack(a)

\* send_file alone, on a long file, with a server that acknowledges
SpecWindow == InitWindow /\ [][NextWindow]_vars

\* C40: in every reachable sender state next_seq_num - base <= WINDOW_SIZE,
\* and sent_packets and send_times hold at most WINDOW_SIZE entries, whatever
\* the value of cwnd
C40_WindowBoundsInFlight ==
  /\ next_seq_num - base <= WINDOW_SIZE
  /\ Cardinality(DOMAIN sent_packets) <= WINDOW_SIZE
  /\ Cardinality(DOMAIN send_times) <= WINDOW_SIZE
\* the window fill has just sent DATA with cwnd above WINDOW_SIZE, and
\* WINDOW_SIZE packets are in flight
C40_Witness ==
  /\ s_pc = "recv"
  /\ Len(s_out) >= 1
  /\ RatFloor(cwnd) > WINDOW_SIZE
  /\ next_seq_num - base = WINDOW_SIZE
  /\ Cardinality(DOMAIN sent_packets) = WINDOW_SIZE

====
